---------------------------- MODULE Spec2Model ----------------------------
(***************************************************************************)
(* A model of the GPay API client (src/GpayApiClient.node.js): the         *)
(* request signer, the response verifier, the transport shim sendRequest   *)
(* and the seven operations built on them.                                 *)
(*                                                                         *)
(* JavaScript strings are sequences of one-character strings, so that      *)
(* concatenation, sorting by code unit and single-character changes are    *)
(* what they are in the program.  A JavaScript value is a record           *)
(* [t |-> type tag, v |-> the characters String(value) gives]; a           *)
(* JavaScript object is the sequence of its own properties in creation     *)
(* order.                                                                  *)
(***************************************************************************)
EXTENDS Integers, Sequences, FiniteSets, TLC

VARIABLES
    client,   \* the GPayApiClient instance: its five credential fields
    calls,    \* the calls of the seven operations, one record per call
    hs        \* one application of the signer and the verifier to drawn inputs

vars == <<client, calls, hs>>

(***************************************************************************)
(* Bounds of the model.                                                    *)
(***************************************************************************)
MaxCalls == 2      \* calls in flight at once (ConcSpec)
MaxTime == 2       \* Date.now() returns one of 1..MaxTime
MaxParams == 2     \* entries of a drawn parameter map (HashSpec)
MaxRows == 1       \* rows of a day_statement / outstanding_transactions array

(***************************************************************************)
(* Strings.                                                                *)
(***************************************************************************)
\* The printable ASCII characters in code order; Printable[i] has code 31 + i
\* (the double quote, the backslash and the backtick are written by name).
Printable ==
    <<" ", "!", "dquote", "#", "$", "%", "&", "'", "(", ")", "*", "+", ",", "-", ".", "/",
      "0", "1", "2", "3", "4", "5", "6", "7", "8", "9", ":", ";", "<", "=", ">", "?",
      "@", "A", "B", "C", "D", "E", "F", "G", "H", "I", "J", "K", "L", "M", "N", "O",
      "P", "Q", "R", "S", "T", "U", "V", "W", "X", "Y", "Z", "[", "backslash", "]", "^", "_",
      "backtick", "a", "b", "c", "d", "e", "f", "g", "h", "i", "j", "k", "l", "m", "n", "o",
      "p", "q", "r", "s", "t", "u", "v", "w", "x", "y", "z", "{", "|", "}", "~">>

Chars == {Printable[i] : i \in DOMAIN Printable}

\* The UTF-16 code unit of a character.
CodeUnit == [c \in Chars |-> 31 + CHOOSE i \in DOMAIN Printable : Printable[i] = c]

Digits == {"0", "1", "2", "3", "4", "5", "6", "7", "8", "9"}

DigitValue == [c \in Digits |-> CodeUnit[c] - 48]

\* String.prototype.toLowerCase on one character.
LowerChar(c) ==
    IF CodeUnit[c] >= 65 /\ CodeUnit[c] <= 90 THEN Printable[CodeUnit[c] + 32 - 31] ELSE c

ToLowerCase(s) == [i \in DOMAIN s |-> LowerChar(s[i])]

\* a < b as JavaScript compares two strings: by code unit, a proper prefix first.
RECURSIVE StrLessFrom(_, _, _)
StrLessFrom(a, b, i) ==
    IF i > Len(b) THEN FALSE
    ELSE IF i > Len(a) THEN TRUE
    ELSE IF a[i] # b[i] THEN CodeUnit[a[i]] < CodeUnit[b[i]]
    ELSE StrLessFrom(a, b, i + 1)

StrLess(a, b) == StrLessFrom(a, b, 1)

\* Array.prototype.join.
RECURSIVE Join(_, _)
Join(strs, sep) ==
    IF strs = <<>> THEN <<>>
    ELSE IF Len(strs) = 1 THEN strs[1]
    ELSE strs[1] \o sep \o Join(Tail(strs), sep)

\* The value of a string of decimal digits.
RECURSIVE DigitsToNat(_)
DigitsToNat(s) ==
    IF s = <<>> THEN 0 ELSE 10 * DigitsToNat(SubSeq(s, 1, Len(s) - 1)) + DigitValue[s[Len(s)]]

RECURSIVE NatToDigits(_)
NatToDigits(n) ==
    IF n < 10 THEN <<Printable[n + 48 - 31]>>
    ELSE NatToDigits(n \div 10) \o <<Printable[(n % 10) + 48 - 31]>>

(***************************************************************************)
(* JavaScript values and objects.                                          *)
(***************************************************************************)
Undefined == [t |-> "undefined", v |-> <<>>]
Null == [t |-> "null", v |-> <<>>]
Str(s) == [t |-> "string", v |-> s]
Num(s) == [t |-> "number", v |-> s]      \* s is what String(number) gives
Bool(b) == [t |-> "boolean", v |-> IF b THEN <<"t", "r", "u", "e">> ELSE <<"f", "a", "l", "s", "e">>]

\* value == null (loose equality: null or undefined).
IsNullish(value) == value.t \in {"undefined", "null"}

\* ToBoolean.
Truthy(value) ==
    CASE value.t \in {"undefined", "null"} -> FALSE
      [] value.t = "string" -> value.v # <<>>
      [] value.t = "number" -> value.v \notin {<<"0">>, <<"N", "a", "N">>}
      [] value.t = "boolean" -> value.v = <<"t", "r", "u", "e">>
      [] OTHER -> TRUE

\* a || b
Or(a, b) == IF Truthy(a) THEN a ELSE b

\* An array index: the canonical decimal form of an integer below 2^32 - 1.
IsArrayIndex(k) ==
    /\ k # <<>>
    /\ \A i \in DOMAIN k : k[i] \in Digits
    /\ (Len(k) > 1 => k[1] # "0")
    /\ Len(k) <= 9

RECURSIVE InsertByIndex(_, _)
InsertByIndex(k, sorted) ==
    IF sorted = <<>> THEN <<k>>
    ELSE IF DigitsToNat(k) < DigitsToNat(sorted[1]) THEN <<k>> \o sorted
    ELSE <<sorted[1]>> \o InsertByIndex(k, Tail(sorted))

RECURSIVE SortByIndex(_)
SortByIndex(ks) == IF ks = <<>> THEN <<>> ELSE InsertByIndex(ks[1], SortByIndex(Tail(ks)))

EmptyObject == <<>>

HasOwn(obj, k) == \E i \in DOMAIN obj : obj[i].k = k

\* obj[k]
Get(obj, k) ==
    IF HasOwn(obj, k) THEN obj[CHOOSE i \in DOMAIN obj : obj[i].k = k].v ELSE Undefined

\* obj[k] = value: an existing property keeps its place, a new one is created last.
Put(obj, k, value) ==
    IF HasOwn(obj, k)
    THEN [i \in DOMAIN obj |-> IF obj[i].k = k THEN [k |-> k, v |-> value] ELSE obj[i]]
    ELSE Append(obj, [k |-> k, v |-> value])

\* delete obj[k]
Delete(obj, k) == SelectSeq(obj, LAMBDA e : e.k # k)

\* Object.keys: array-index keys in ascending numeric order, then the other keys
\* in creation order.
ObjectKeys(obj) ==
    LET ks == [i \in DOMAIN obj |-> obj[i].k]
    IN SortByIndex(SelectSeq(ks, IsArrayIndex)) \o SelectSeq(ks, LAMBDA k : ~IsArrayIndex(k))

\* Object.entries
ObjectEntries(obj) ==
    LET ks == ObjectKeys(obj) IN [i \in DOMAIN ks |-> [k |-> ks[i], v |-> Get(obj, ks[i])]]

\* Array.prototype.sort with the default comparison, on distinct strings.
RECURSIVE InsertSorted(_, _)
InsertSorted(k, sorted) ==
    IF sorted = <<>> THEN <<k>>
    ELSE IF StrLess(k, sorted[1]) THEN <<k>> \o sorted
    ELSE <<sorted[1]>> \o InsertSorted(k, Tail(sorted))

RECURSIVE Sort(_)
Sort(ks) == IF ks = <<>> THEN <<>> ELSE InsertSorted(ks[1], Sort(Tail(ks)))


(***************************************************************************)
(* Names on the wire.                                                      *)
(***************************************************************************)
K_request_timestamp == <<"r", "e", "q", "u", "e", "s", "t", "_", "t", "i", "m", "e", "s", "t", "a", "m", "p">>
K_amount == <<"a", "m", "o", "u", "n", "t">>
K_reference_no == <<"r", "e", "f", "e", "r", "e", "n", "c", "e", "_", "n", "o">>
K_description == <<"d", "e", "s", "c", "r", "i", "p", "t", "i", "o", "n">>
K_request_id == <<"r", "e", "q", "u", "e", "s", "t", "_", "i", "d">>
K_wallet_gateway_id == <<"w", "a", "l", "l", "e", "t", "_", "g", "a", "t", "e", "w", "a", "y", "_", "i", "d">>
K_date == <<"d", "a", "t", "e">>
K_balance == <<"b", "a", "l", "a", "n", "c", "e">>
K_response_timestamp == <<"r", "e", "s", "p", "o", "n", "s", "e", "_", "t", "i", "m", "e", "s", "t", "a", "m", "p">>
K_requester_username == <<"r", "e", "q", "u", "e", "s", "t", "e", "r", "_", "u", "s", "e", "r", "n", "a", "m", "e">>
K_request_time == <<"r", "e", "q", "u", "e", "s", "t", "_", "t", "i", "m", "e">>
K_transaction_id == <<"t", "r", "a", "n", "s", "a", "c", "t", "i", "o", "n", "_", "i", "d">>
K_payment_timestamp == <<"p", "a", "y", "m", "e", "n", "t", "_", "t", "i", "m", "e", "s", "t", "a", "m", "p">>
K_is_paid == <<"i", "s", "_", "p", "a", "i", "d">>
K_sender_fee == <<"s", "e", "n", "d", "e", "r", "_", "f", "e", "e">>
K_old_balance == <<"o", "l", "d", "_", "b", "a", "l", "a", "n", "c", "e">>
K_new_balance == <<"n", "e", "w", "_", "b", "a", "l", "a", "n", "c", "e">>
K_timestamp == <<"t", "i", "m", "e", "s", "t", "a", "m", "p">>
K_available_balance == <<"a", "v", "a", "i", "l", "a", "b", "l", "e", "_", "b", "a", "l", "a", "n", "c", "e">>
K_outstanding_credit == <<"o", "u", "t", "s", "t", "a", "n", "d", "i", "n", "g", "_", "c", "r", "e", "d", "i", "t">>
K_outstanding_debit == <<"o", "u", "t", "s", "t", "a", "n", "d", "i", "n", "g", "_", "d", "e", "b", "i", "t">>
K_day_balance == <<"d", "a", "y", "_", "b", "a", "l", "a", "n", "c", "e">>
K_day_total_in == <<"d", "a", "y", "_", "t", "o", "t", "a", "l", "_", "i", "n">>
K_day_total_out == <<"d", "a", "y", "_", "t", "o", "t", "a", "l", "_", "o", "u", "t">>
K_exists == <<"e", "x", "i", "s", "t", "s">>
K_wallet_name == <<"w", "a", "l", "l", "e", "t", "_", "n", "a", "m", "e">>
K_user_account_name == <<"u", "s", "e", "r", "_", "a", "c", "c", "o", "u", "n", "t", "_", "n", "a", "m", "e">>
K_can_receive_money == <<"c", "a", "n", "_", "r", "e", "c", "e", "i", "v", "e", "_", "m", "o", "n", "e", "y">>

K_datetime == <<"d", "a", "t", "e", "t", "i", "m", "e">>
K_op_type_id == <<"o", "p", "_", "t", "y", "p", "e", "_", "i", "d">>
K_status == <<"s", "t", "a", "t", "u", "s">>
K_created_at == <<"c", "r", "e", "a", "t", "e", "d", "_", "a", "t">>

H_x_signature_hash == <<"x", "-", "s", "i", "g", "n", "a", "t", "u", "r", "e", "-", "h", "a", "s", "h">>
H_X_Signature_Hash == <<"X", "-", "S", "i", "g", "n", "a", "t", "u", "r", "e", "-", "H", "a", "s", "h">>
H_x_signature_salt == <<"x", "-", "s", "i", "g", "n", "a", "t", "u", "r", "e", "-", "s", "a", "l", "t">>
H_X_Signature_Salt == <<"X", "-", "S", "i", "g", "n", "a", "t", "u", "r", "e", "-", "S", "a", "l", "t">>
H_Authorization == <<"A", "u", "t", "h", "o", "r", "i", "z", "a", "t", "i", "o", "n">>
H_Accept_Language == <<"A", "c", "c", "e", "p", "t", "-", "L", "a", "n", "g", "u", "a", "g", "e">>
H_Content_Type == <<"C", "o", "n", "t", "e", "n", "t", "-", "T", "y", "p", "e">>
ApplicationJson == <<"a", "p", "p", "l", "i", "c", "a", "t", "i", "o", "n", "/", "j", "s", "o", "n">>
Bearer == <<"B", "e", "a", "r", "e", "r", " ">>

(***************************************************************************)
(* The client: constructor, signer and verifier.                           *)
(***************************************************************************)
BaseUrl == [STAGING |-> "https://gpay-staging.libyaguide.net/banking/api/onlinewallet/v1",
            PRODUCTION |-> "https://gpay.ly/banking/api/onlinewallet/v1",
            DEV |-> "http://localhost:8080/banking/api/onlinewallet/v1"]

\* Object.values(BaseUrl)
BaseUrlValues == {BaseUrl[n] : n \in DOMAIN BaseUrl}

\* new GPayApiClient(apiKey, secretKey, password, baseUrl, language): the instance,
\* or no instance when the constructor throws.
NoClient == [constructed |-> FALSE, apiKey |-> <<>>, secretKey |-> <<>>, password |-> <<>>,
             baseUrl |-> "", language |-> <<>>]

Construct(apiKey, secretKey, password, baseUrl, language) ==
    IF baseUrl \notin BaseUrlValues THEN NoClient
    ELSE [constructed |-> TRUE, apiKey |-> apiKey, secretKey |-> secretKey,
          password |-> password, baseUrl |-> baseUrl, language |-> language]

\* crypto.randomBytes(32).toString('base64'): the values the generator may return,
\* one for each call that may be in flight ("S", "T", ...).
Salts == {<<Printable[i]>> : i \in 52..(51 + MaxCalls)}

generateHashToken(salt, password) == salt \o password

\* crypto.createHmac('sha256', key).update(message).digest('base64'), taken as
\* collision-free: an injective function of the key and the message (no key of the
\* model holds a closing brace).
HmacSha256Base64(key, message) == <<"{">> \o key \o <<"}">> \o message

\* Mutant: the null test inverted, so every present value is written as ''.
TemplateValue_Inverted(value) == IF IsNullish(value) THEN value.v ELSE <<>>

\* Mutant: `${value}`, with no test for null.
TemplateValue_NoNullCheck(value) ==
    CASE value.t = "undefined" -> <<"u", "n", "d", "e", "f", "i", "n", "e", "d">>
      [] value.t = "null" -> <<"n", "u", "l", "l">>
      [] OTHER -> value.v

\* `${value == null ? '' : value}`
TemplateValue(value) == IF IsNullish(value) THEN <<>> ELSE value.v

\* Object.keys(parameters).sort().reduce((obj, key) => { obj[key] = parameters[key]; ... }, {})
RECURSIVE ReduceInto(_, _, _)
ReduceInto(obj, keys, parameters) ==
    IF keys = <<>> THEN obj
    ELSE ReduceInto(Put(obj, keys[1], Get(parameters, keys[1])), Tail(keys), parameters)

\* Mutant: the keys are not sorted.
SortedParams_Unsorted(parameters) == ReduceInto(EmptyObject, ObjectKeys(parameters), parameters)

SortedParams(parameters) == ReduceInto(EmptyObject, Sort(ObjectKeys(parameters)), parameters)

\* The string that is signed after the hash token.
QueryString(parameters) ==
    LET entries == ObjectEntries(SortedParams(parameters))
    IN Join([i \in DOMAIN entries |-> entries[i].k \o <<"=">> \o TemplateValue(entries[i].v)],
            <<"&">>)

generateVerificationHash(this, hashToken, parameters) ==
    HmacSha256Base64(this.secretKey, hashToken \o QueryString(parameters))

\* Mutant: the hash token is built as password + salt.
verifyResponse_PasswordFirst(this, headers, responseFields) ==
    LET receivedHash == Or(Get(headers, H_x_signature_hash), Get(headers, H_X_Signature_Hash))
        receivedSalt == Or(Get(headers, H_x_signature_salt), Get(headers, H_X_Signature_Salt))
    IN IF ~Truthy(receivedHash) \/ ~Truthy(receivedSalt)
       THEN [threw |-> "MissingSignature", hmacs |-> 0]
       ELSE LET hashToken == generateHashToken(this.password, receivedSalt.v)
                verificationHash == generateVerificationHash(this, hashToken, responseFields)
            IN IF verificationHash # receivedHash.v
               THEN [threw |-> "HashMismatch", hmacs |-> 1]
               ELSE [threw |-> "none", hmacs |-> 1]

\* Mutant: only the hash header is required.
verifyResponse_HashOnly(this, headers, responseFields) ==
    LET receivedHash == Or(Get(headers, H_x_signature_hash), Get(headers, H_X_Signature_Hash))
        receivedSalt == Or(Get(headers, H_x_signature_salt), Get(headers, H_X_Signature_Salt))
    IN IF ~Truthy(receivedHash)
       THEN [threw |-> "MissingSignature", hmacs |-> 0]
       ELSE LET hashToken == generateHashToken(TemplateValue(receivedSalt), this.password)
                verificationHash == generateVerificationHash(this, hashToken, responseFields)
            IN IF verificationHash # receivedHash.v
               THEN [threw |-> "HashMismatch", hmacs |-> 1]
               ELSE [threw |-> "none", hmacs |-> 1]

\* verifyResponse: what it throws ("none" when it returns) and how many hashes it
\* computed on the way.
verifyResponse(this, headers, responseFields) ==
    LET receivedHash == Or(Get(headers, H_x_signature_hash), Get(headers, H_X_Signature_Hash))
        receivedSalt == Or(Get(headers, H_x_signature_salt), Get(headers, H_X_Signature_Salt))
    IN IF ~Truthy(receivedHash) \/ ~Truthy(receivedSalt)
       THEN [threw |-> "MissingSignature", hmacs |-> 0]
       ELSE LET hashToken == generateHashToken(receivedSalt.v, this.password)
                verificationHash == generateVerificationHash(this, hashToken, responseFields)
            IN IF verificationHash # receivedHash.v
               THEN [threw |-> "HashMismatch", hmacs |-> 1]
               ELSE [threw |-> "none", hmacs |-> 1]

\* The headers object sendRequest hands to fetch.
RequestHeaders(this, salt, verificationHash) ==
    LET h1 == Put(EmptyObject, H_Authorization, Str(Bearer \o this.apiKey))
        h2 == Put(h1, H_Accept_Language, Str(this.language))
        h3 == Put(h2, H_X_Signature_Salt, Str(salt))
        h4 == Put(h3, H_X_Signature_Hash, Str(verificationHash))
    IN Put(h4, H_Content_Type, Str(ApplicationJson))

(***************************************************************************)
(* The signer and the verifier applied to drawn inputs (HashSpec).         *)
(***************************************************************************)
ParamKeys == {<<"a">>, <<"b">>, <<"9">>, <<"1", "0">>}
ParamValues == {Str(<<"1">>), Str(<<"a", "=">>), Num(<<"7">>), Null}
ParamEntries == {[k |-> k, v |-> v] : k \in ParamKeys, v \in ParamValues}

\* The objects of at most MaxParams properties, created in ascending key order
\* (HReorder reaches the other creation orders).
ParamMaps ==
    UNION {{m \in [1..n -> ParamEntries] : \A i \in 1..(n - 1) : StrLess(m[i].k, m[i + 1].k)}
           : n \in 0..MaxParams}

HashClients ==
    {Construct(<<"A">>, k, p, BaseUrl.STAGING, <<"e", "n">>) : k \in {<<"k">>, <<"j">>}, p \in {<<"p">>, <<"q">>}}

TamperChars == {"1", "2", "&", "="}

HsIdle == [stage |-> "idle", salt |-> <<>>, params |-> EmptyObject, headers |-> EmptyObject,
           fields |-> EmptyObject, mods |-> {}, verdict |-> [threw |-> "none", hmacs |-> 0]]

\* s with its j-th character replaced by c.
ReplaceChar(s, j, c) == [i \in DOMAIN s |-> IF i = j THEN c ELSE s[i]]

\* Sign hs.params the way sendRequest signs a request's parameters (lines 124-136).
HSign ==
    /\ hs.stage = "drawn"
    /\ \E salt \in Salts :
         LET hashToken == generateHashToken(salt, client.password)
             verificationHash == generateVerificationHash(client, hashToken, hs.params)
         IN hs' = [hs EXCEPT !.stage = "signed", !.salt = salt,
                             !.headers = RequestHeaders(client, salt, verificationHash)]
    /\ UNCHANGED <<client, calls>>

\* The same properties created in another order: one is deleted and added again.
HReorder ==
    /\ hs.stage = "signed"
    /\ hs.mods \subseteq {"reorder"}
    /\ \E i \in 1..(Len(hs.fields) - 1) :
         hs' = [hs EXCEPT !.fields = Put(Delete(hs.fields, hs.fields[i].k), hs.fields[i].k, hs.fields[i].v),
                          !.mods = {"reorder"}]
    /\ UNCHANGED <<client, calls>>

\* One character of one field's value is changed.
HTamper ==
    /\ hs.stage = "signed"
    /\ hs.mods = {}
    /\ \E i \in DOMAIN hs.fields :
         \E j \in DOMAIN hs.fields[i].v.v :
           \E c \in (IF hs.fields[i].v.t = "number" THEN TamperChars \cap Digits ELSE TamperChars) :
             /\ c # hs.fields[i].v.v[j]
             /\ hs' = [hs EXCEPT !.fields[i].v.v = ReplaceChar(@, j, c), !.mods = {"tamper"}]
    /\ UNCHANGED <<client, calls>>

\* A signature header is missing from the headers.
HDrop ==
    /\ hs.stage = "signed"
    /\ hs.mods \subseteq {"tamper"}
    /\ \E h \in {"dropSalt", "dropHash"} :
         /\ hs' = [hs EXCEPT !.headers = Delete(@, IF h = "dropSalt" THEN H_X_Signature_Salt
                                                                     ELSE H_X_Signature_Hash),
                             !.mods = @ \cup {h}]
    /\ UNCHANGED <<client, calls>>

\* The values of another type that print as value prints in the signed string:
\* for null, undefined and the empty string; for a number, its decimal string.
SameText(value) ==
    CASE value.t = "null" -> {Undefined, Str(<<>>)}
      [] value.t = "number" -> {Str(value.v)}
      [] OTHER -> {}

\* One field's value is replaced by a value of another type that prints the same.
HRetype ==
    /\ hs.stage = "signed"
    /\ hs.mods = {}
    /\ \E i \in DOMAIN hs.fields : \E value \in SameText(hs.fields[i].v) :
         hs' = [hs EXCEPT !.fields[i].v = value, !.mods = {"retype"}]
    /\ UNCHANGED <<client, calls>>

\* String.prototype.toUpperCase on one character.
UpperChar(c) ==
    IF CodeUnit[c] >= 97 /\ CodeUnit[c] <= 122 THEN Printable[CodeUnit[c] - 32 - 31] ELSE c

ToUpperCase(s) == [i \in DOMAIN s |-> UpperChar(s[i])]

\* obj with its property from named to instead, in the same place.
RenameKey(obj, from, to) ==
    [i \in DOMAIN obj |-> IF obj[i].k = from THEN [k |-> to, v |-> obj[i].v] ELSE obj[i]]

\* The headers object reaches verifyResponse with the two signature header names
\* in another letter case: all lower case, as fetch delivers them, or all upper case.
HRecase ==
    /\ hs.stage = "signed"
    /\ hs.mods = {}
    /\ \E spell \in {"lower", "upper"} :
         LET Respell(name) == IF spell = "lower" THEN ToLowerCase(name) ELSE ToUpperCase(name)
         IN hs' = [hs EXCEPT !.headers = RenameKey(RenameKey(@, H_X_Signature_Salt, Respell(H_X_Signature_Salt)),
                                                   H_X_Signature_Hash, Respell(H_X_Signature_Hash)),
                             !.mods = {spell}]
    /\ UNCHANGED <<client, calls>>

\* verifyResponse(headers, fields) on the client.
HVerify ==
    /\ hs.stage = "signed"
    /\ hs' = [hs EXCEPT !.stage = "verified", !.verdict = verifyResponse(client, hs.headers, hs.fields)]
    /\ UNCHANGED <<client, calls>>

(***************************************************************************)
(* Conversions the result records apply to the response's values.          *)
(***************************************************************************)
NaN == Num(<<"N", "a", "N">>)

\* ToString(value), as parseFloat and Number see an argument.
ToStringChars(value) ==
    CASE value.t = "undefined" -> <<"u", "n", "d", "e", "f", "i", "n", "e", "d">>
      [] value.t = "null" -> <<"n", "u", "l", "l">>
      [] OTHER -> value.v

\* The longest prefix of s, from position i, made of digits.
RECURSIVE DigitRun(_, _)
DigitRun(s, i) ==
    IF i <= Len(s) /\ s[i] \in Digits THEN <<s[i]>> \o DigitRun(s, i + 1) ELSE <<>>

RECURSIVE StripLeadingZeros(_)
StripLeadingZeros(ds) ==
    IF Len(ds) > 1 /\ ds[1] = "0" THEN StripLeadingZeros(Tail(ds)) ELSE ds

RECURSIVE StripTrailingZeros(_)
StripTrailingZeros(ds) ==
    IF ds # <<>> /\ ds[Len(ds)] = "0" THEN StripTrailingZeros(SubSeq(ds, 1, Len(ds) - 1)) ELSE ds

RECURSIVE SkipSpaces(_, _)
SkipSpaces(s, i) == IF i <= Len(s) /\ s[i] = " " THEN SkipSpaces(s, i + 1) ELSE i

\* The decimal literal that starts at position i of s: its sign, integer digits,
\* fraction digits and the position after it (no digits at all: ok is FALSE).
DecimalAt(s, i) ==
    LET signed == i <= Len(s) /\ s[i] \in {"+", "-"}
        neg == signed /\ s[i] = "-"
        j == IF signed THEN i + 1 ELSE i
        int == DigitRun(s, j)
        k == j + Len(int)
        dot == k <= Len(s) /\ s[k] = "."
        frac == IF dot THEN DigitRun(s, k + 1) ELSE <<>>
        stop == IF dot /\ (int # <<>> \/ frac # <<>>) THEN k + 1 + Len(frac) ELSE k
    IN [ok |-> int # <<>> \/ frac # <<>>, neg |-> neg, int |-> int, frac |-> frac, stop |-> stop]

\* String(number) of the number a decimal literal denotes.
NumberOf(d) ==
    LET int == StripLeadingZeros(IF d.int = <<>> THEN <<"0">> ELSE d.int)
        frac == StripTrailingZeros(d.frac)
        zero == int = <<"0">> /\ frac = <<>>
    IN Num((IF d.neg /\ ~zero THEN <<"-">> ELSE <<>>) \o int
           \o (IF frac = <<>> THEN <<>> ELSE <<".">> \o frac))

\* parseFloat(value): the number the longest numeric prefix denotes, or NaN.
parseFloat(value) ==
    LET s == ToStringChars(value)
        d == DecimalAt(s, SkipSpaces(s, 1))
    IN IF d.ok THEN NumberOf(d) ELSE NaN

\* Number(value): the whole string must be a numeric literal; the empty string and
\* null give 0.
ToNumber(value) ==
    CASE value.t = "undefined" -> NaN
      [] value.t = "null" -> Num(<<"0">>)
      [] value.t = "boolean" -> IF Truthy(value) THEN Num(<<"1">>) ELSE Num(<<"0">>)
      [] value.t = "number" -> value
      [] OTHER ->
           LET s == value.v
               i == SkipSpaces(s, 1)
               d == DecimalAt(s, i)
           IN IF i > Len(s) THEN Num(<<"0">>)
              ELSE IF d.ok /\ SkipSpaces(s, d.stop) > Len(s) THEN NumberOf(d) ELSE NaN

\* new Date(Number(value)): the time value in milliseconds, truncated to an integer.
NewDate(value) ==
    LET n == ToNumber(value)
        d == DecimalAt(n.v, 1)
    IN IF n = NaN THEN [t |-> "date", v |-> <<"I", "n", "v", "a", "l", "i", "d", " ", "D", "a", "t", "e">>]
       ELSE [t |-> "date", v |-> NumberOf([d EXCEPT !.frac = <<>>]).v]

(***************************************************************************)
(* The seven operations: parameters, signed response fields, records.      *)
(***************************************************************************)
Ops == {"getBalance", "createPaymentRequest", "checkPaymentStatus", "sendMoney",
        "getStatement", "checkWallet", "getOutstandingTransactions"}

Endpoint(op) ==
    CASE op = "getBalance" -> "/info/balance"
      [] op = "createPaymentRequest" -> "/payment/create-payment-request"
      [] op = "checkPaymentStatus" -> "/payment/check-payment-status"
      [] op = "sendMoney" -> "/payment/send-money"
      [] op = "getStatement" -> "/info/statement"
      [] op = "checkWallet" -> "/info/check-wallet"
      [] op = "getOutstandingTransactions" -> "/info/outstanding-transactions"

\* An object literal {k1: v1, k2: v2, ...}.
RECURSIVE ObjectLiteral(_)
ObjectLiteral(props) ==
    IF props = <<>> THEN EmptyObject
    ELSE Put(ObjectLiteral(SubSeq(props, 1, Len(props) - 1)), props[Len(props)][1], props[Len(props)][2])

\* value.toString() of a string or a number.
ToStringMethod(value) == Str(value.v)

\* Date.now().toString()
NowString(now) == Str(NatToDigits(now))

NoArgs == [amount |-> Undefined, walletGatewayId |-> Undefined, referenceNo |-> Undefined,
           description |-> Undefined, requestId |-> Undefined, date |-> Undefined]

\* The parameters object each operation builds from its arguments and the clock.
BuildParameters(op, args, now) ==
    CASE op = "getBalance" ->
           ObjectLiteral(<< <<K_request_timestamp, NowString(now)>> >>)
      [] op = "createPaymentRequest" ->
           ObjectLiteral(<< <<K_amount, ToStringMethod(args.amount)>>,
                            <<K_reference_no, args.referenceNo>>,
                            <<K_description, args.description>>,
                            <<K_request_timestamp, NowString(now)>> >>)
      [] op = "checkPaymentStatus" ->
           ObjectLiteral(<< <<K_request_id, args.requestId>>,
                            <<K_request_timestamp, NowString(now)>> >>)
      [] op = "sendMoney" ->
           ObjectLiteral(<< <<K_amount, ToStringMethod(args.amount)>>,
                            <<K_wallet_gateway_id, args.walletGatewayId>>,
                            <<K_reference_no, args.referenceNo>>,
                            <<K_description, args.description>>,
                            <<K_request_timestamp, NowString(now)>> >>)
      [] op = "getStatement" ->
           ObjectLiteral(<< <<K_date, args.date>>,
                            <<K_request_timestamp, NowString(now)>> >>)
      [] op = "checkWallet" ->
           ObjectLiteral(<< <<K_wallet_gateway_id, args.walletGatewayId>>,
                            <<K_request_timestamp, NowString(now)>> >>)
      [] op = "getOutstandingTransactions" ->
           ObjectLiteral(<< <<K_request_timestamp, NowString(now)>> >>)

\* The names of the response fields each operation hands to verifyResponse, in
\* the order of its object literal.
SignedFieldNames(op) ==
    CASE op = "getBalance" -> <<K_balance, K_response_timestamp>>
      [] op = "createPaymentRequest" ->
           <<K_requester_username, K_request_id, K_request_time, K_amount, K_reference_no,
             K_response_timestamp>>
      [] op = "checkPaymentStatus" ->
           <<K_request_id, K_transaction_id, K_amount, K_payment_timestamp, K_reference_no,
             K_description, K_is_paid, K_response_timestamp>>
      [] op = "sendMoney" ->
           <<K_amount, K_sender_fee, K_transaction_id, K_old_balance, K_new_balance,
             K_timestamp, K_reference_no, K_response_timestamp>>
      [] op = "getStatement" ->
           <<K_available_balance, K_outstanding_credit, K_outstanding_debit, K_day_balance,
             K_day_total_in, K_day_total_out, K_response_timestamp>>
      [] op = "checkWallet" ->
           <<K_exists, K_wallet_gateway_id, K_wallet_name, K_user_account_name,
             K_can_receive_money, K_response_timestamp>>
      [] op = "getOutstandingTransactions" ->
           <<K_outstanding_credit, K_outstanding_debit, K_response_timestamp>>

\* Mutant: the amount is left out of the fields that are verified.
ResponseFields_AmountUnsigned(op, data) ==
    LET names == SelectSeq(SignedFieldNames(op), LAMBDA k : k # K_amount)
    IN ObjectLiteral([i \in DOMAIN names |-> <<names[i], Get(data.fields, names[i])>>])

\* {name: data.name, ...} over the operation's signed field names.
ResponseFields(op, data) ==
    LET names == SignedFieldNames(op)
    IN ObjectLiteral([i \in DOMAIN names |-> <<names[i], Get(data.fields, names[i])>>])

NoRecord == [type |-> "none", props |-> <<>>, rows |-> <<>>]

Prop(name, value) == [k |-> name, v |-> value]

\* new StatementTransaction(...) / new OutstandingTransaction(...): the two
\* constructors have the same body.
TransactionRow(tx) ==
    LET amount == Get(tx, K_amount)
        balance == Get(tx, K_balance)
    IN << Prop("transactionId", Get(tx, K_transaction_id)),
          Prop("datetime", Get(tx, K_datetime)),
          Prop("timestamp", Get(tx, K_timestamp)),
          Prop("description", Get(tx, K_description)),
          Prop("amount", IF amount.t # "undefined" /\ amount.t # "null" THEN parseFloat(amount) ELSE Null),
          Prop("balance", IF balance.t # "undefined" /\ balance.t # "null" THEN parseFloat(balance) ELSE Null),
          Prop("referenceNo", Get(tx, K_reference_no)),
          Prop("opTypeId", Get(tx, K_op_type_id)),
          Prop("status", Get(tx, K_status)),
          Prop("createdAt", Get(tx, K_created_at)) >>

\* Array.isArray(a) ? a.map(tx => new ...Transaction(...)) : []
MapRows(array) ==
    IF array.isArray THEN [i \in DOMAIN array.items |-> TransactionRow(array.items[i])] ELSE <<>>

\* The record each operation constructs from data after verification.
NewRecord(op, data) ==
    LET F(k) == Get(data.fields, k)
    IN CASE op = "getBalance" ->
              [type |-> "Balance", rows |-> <<>>, props |->
                << Prop("balance", parseFloat(F(K_balance))),
                   Prop("responseTime", NewDate(F(K_response_timestamp))) >>]
         [] op = "createPaymentRequest" ->
              [type |-> "PaymentRequest", rows |-> <<>>, props |->
                << Prop("requesterUsername", F(K_requester_username)),
                   Prop("requestId", F(K_request_id)),
                   Prop("requestTime", F(K_request_time)),
                   Prop("amount", parseFloat(F(K_amount))),
                   Prop("referenceNo", F(K_reference_no)),
                   Prop("responseTime", NewDate(F(K_response_timestamp))) >>]
         [] op = "checkPaymentStatus" ->
              [type |-> "PaymentStatus", rows |-> <<>>, props |->
                << Prop("requestId", F(K_request_id)),
                   Prop("transactionId", F(K_transaction_id)),
                   Prop("amount", parseFloat(F(K_amount))),
                   Prop("paymentTimestamp", F(K_payment_timestamp)),
                   Prop("referenceNo", F(K_reference_no)),
                   Prop("description", F(K_description)),
                   Prop("isPaid", F(K_is_paid)),
                   Prop("responseTime", NewDate(F(K_response_timestamp))) >>]
         [] op = "sendMoney" ->
              [type |-> "SendMoneyResult", rows |-> <<>>, props |->
                << Prop("amount", parseFloat(F(K_amount))),
                   Prop("senderFee", parseFloat(F(K_sender_fee))),
                   Prop("transactionId", F(K_transaction_id)),
                   Prop("oldBalance", parseFloat(F(K_old_balance))),
                   Prop("newBalance", parseFloat(F(K_new_balance))),
                   Prop("timestamp", F(K_timestamp)),
                   Prop("referenceNo", F(K_reference_no)),
                   Prop("responseTime", NewDate(F(K_response_timestamp))) >>]
         [] op = "getStatement" ->
              [type |-> "Statement", rows |-> MapRows(data.day_statement), props |->
                << Prop("availableBalance", parseFloat(F(K_available_balance))),
                   Prop("outstandingCredit", parseFloat(F(K_outstanding_credit))),
                   Prop("outstandingDebit", parseFloat(F(K_outstanding_debit))),
                   Prop("dayBalance", parseFloat(F(K_day_balance))),
                   Prop("dayTotalIn", parseFloat(F(K_day_total_in))),
                   Prop("dayTotalOut", parseFloat(F(K_day_total_out))),
                   Prop("responseTime", NewDate(F(K_response_timestamp))) >>]
         [] op = "checkWallet" ->
              [type |-> "WalletCheck", rows |-> <<>>, props |->
                << Prop("exists", F(K_exists)),
                   Prop("walletGatewayId", F(K_wallet_gateway_id)),
                   Prop("walletName", F(K_wallet_name)),
                   Prop("userAccountName", F(K_user_account_name)),
                   Prop("canReceiveMoney", F(K_can_receive_money)),
                   Prop("responseTime", NewDate(F(K_response_timestamp))) >>]
         [] op = "getOutstandingTransactions" ->
              [type |-> "OutstandingTransactions", rows |-> MapRows(data.outstanding_transactions),
               props |->
                << Prop("outstandingCredit", parseFloat(F(K_outstanding_credit))),
                   Prop("outstandingDebit", parseFloat(F(K_outstanding_debit))),
                   Prop("responseTime", NewDate(F(K_response_timestamp))) >>]

(***************************************************************************)
(* Transport: the request on the wire, the response, JSON.                 *)
(***************************************************************************)
\* JSON.stringify(parameters): the members of the JSON object, in property order;
\* a property whose value is undefined is left out.
JSONStringify(parameters) ==
    SelectSeq(ObjectEntries(parameters), LAMBDA e : e.v.t # "undefined")

NotArray == [isArray |-> FALSE, items |-> <<>>]
NoData == [present |-> FALSE, fields |-> EmptyObject, day_statement |-> NotArray,
           outstanding_transactions |-> NotArray]
NoErrorField == [t |-> "undefined", code |-> Undefined, message |-> Undefined]
ErrorObject(code, message) == [t |-> "object", code |-> code, message |-> message]
JsonNull == [t |-> "null", error |-> NoErrorField, data |-> NoData]
JsonObject(error, data) == [t |-> "object", error |-> error, data |-> data]

\* A response body: text that JSON.parse rejects, or the text of a JSON value.
MalformedBody == [kind |-> "malformed", json |-> JsonNull]
JsonBody(json) == [kind |-> "json", json |-> json]

NoResponse == [status |-> 0, headers |-> EmptyObject, body |-> MalformedBody]
NoResult == [response |-> JsonNull, headers |-> EmptyObject, code |-> 0]
NoError == [kind |-> "none", code |-> <<>>, message |-> <<>>]
Thrown(kind) == [kind |-> kind, code |-> <<>>, message |-> <<>>]

\* response.headers.forEach((value, key) => { headers[key] = value; }): fetch
\* yields each header name in lower case, the names in sorted order.
RECURSIVE CollectHeaders(_, _, _)
CollectHeaders(obj, names, raw) ==
    IF names = <<>> THEN obj
    ELSE LET i == CHOOSE i \in DOMAIN raw : ToLowerCase(raw[i].k) = names[1]
         IN CollectHeaders(Put(obj, names[1], raw[i].v), Tail(names), raw)

HeadersForEach(raw) ==
    CollectHeaders(EmptyObject, Sort([i \in DOMAIN raw |-> ToLowerCase(raw[i].k)]), raw)

(***************************************************************************)
(* The remote service: the responses it may send to a call.                *)
(***************************************************************************)
ServerSalt == <<"Z">>

SampleValue(k, variant) ==
    IF k \in {K_exists, K_is_paid, K_can_receive_money} THEN Bool(variant = 1)
    ELSE IF k = K_reference_no THEN (IF variant = 1 THEN Str(<<"R">>) ELSE Null)
    ELSE IF k = K_response_timestamp THEN Num(<<"7">>)
    ELSE IF variant = 1 THEN Str(<<"1">>) ELSE Str(<<"2", ".", "5", "0">>)

SampleRow ==
    ObjectLiteral(<< <<K_transaction_id, Str(<<"t">>)>>, <<K_amount, Str(<<"3">>)>>,
                     <<K_balance, Null>> >>)

SampleData(op, variant, nrows) ==
    LET names == SignedFieldNames(op)
        rows == [isArray |-> TRUE, items |-> [i \in 1..nrows |-> SampleRow]]
    IN [present |-> TRUE,
        fields |-> ObjectLiteral([i \in DOMAIN names |-> <<names[i], SampleValue(names[i], variant)>>]),
        day_statement |-> IF op = "getStatement" /\ variant = 1 THEN rows ELSE NotArray,
        outstanding_transactions |->
            IF op = "getOutstandingTransactions" /\ variant = 1 THEN rows ELSE NotArray]

\* data with fields the operation does not sign: the service may send more than
\* the operation reads.
UnsignedExtras == <<K_description, K_amount, K_balance, K_status>>

RECURSIVE PutMissing(_, _)
PutMissing(fields, names) ==
    IF names = <<>> THEN fields
    ELSE PutMissing(IF HasOwn(fields, names[1]) THEN fields ELSE Put(fields, names[1], Str(<<"x">>)),
                    Tail(names))

WithUnsigned(data) == [data EXCEPT !.fields = PutMissing(@, UnsignedExtras)]

\* data whose amounts and balances are null.
NumericNames == {K_balance, K_amount, K_sender_fee, K_old_balance, K_new_balance,
                 K_available_balance, K_outstanding_credit, K_outstanding_debit,
                 K_day_balance, K_day_total_in, K_day_total_out}

WithNulls(data) ==
    [data EXCEPT !.fields = [i \in DOMAIN data.fields |->
                               IF data.fields[i].k \in NumericNames
                               THEN [k |-> data.fields[i].k, v |-> Null] ELSE data.fields[i]]]

\* The signature headers the service computes over the signed fields of data, with
\* the password and the secret key it shares with the client.
ServerHeaders(op, this, data) ==
    LET hashToken == generateHashToken(ServerSalt, this.password)
        hash == generateVerificationHash(this, hashToken, ResponseFields(op, data))
    IN ObjectLiteral(<< <<H_Content_Type, Str(ApplicationJson)>>,
                        <<H_X_Signature_Salt, Str(ServerSalt)>>,
                        <<H_X_Signature_Hash, Str(hash)>> >>)

SignedResponse(op, this, data) ==
    [status |-> 200, headers |-> ServerHeaders(op, this, data),
     body |-> JsonBody(JsonObject(NoErrorField, data))]

\* A body whose data is not the data the signature was computed over.
TamperedResponse(op, this) ==
    [SignedResponse(op, this, SampleData(op, 1, 0)) EXCEPT
        !.headers = ServerHeaders(op, this, SampleData(op, 2, 0))]

ErrorResponse ==
    [status |-> 400, headers |-> ObjectLiteral(<< <<H_Content_Type, Str(ApplicationJson)>> >>),
     body |-> JsonBody(JsonObject(ErrorObject(Str(<<"E", "7">>), Str(<<"n", "o">>)), NoData))]

\* The responses of the concurrent specification.
LeanResponses(op, this) ==
    {SignedResponse(op, this, SampleData(op, 1, 0)), TamperedResponse(op, this), ErrorResponse}

Responses(op, this) ==
    LeanResponses(op, this)
    \cup {SignedResponse(op, this, SampleData(op, 1, n)) : n \in 1..MaxRows}
    \cup {SignedResponse(op, this, SampleData(op, 2, 0))}
    \cup {SignedResponse(op, this, WithUnsigned(SampleData(op, 1, MaxRows)))}
    \cup {SignedResponse(op, this, WithNulls(SampleData(op, 1, MaxRows)))}
    \cup {[SignedResponse(op, this, SampleData(op, 1, 0)) EXCEPT !.status = 500],
          [TamperedResponse(op, this) EXCEPT !.status = 404],
          [ErrorResponse EXCEPT !.status = 200]}
    \cup {[SignedResponse(op, this, SampleData(op, 1, 0)) EXCEPT !.headers = Delete(@, h)]
          : h \in {H_X_Signature_Salt, H_X_Signature_Hash}}
    \cup {[ErrorResponse EXCEPT !.headers = ServerHeaders(op, this, SampleData(op, 1, 0)),
                                !.body.json.data = SampleData(op, 1, 0)]}
    \cup {[status |-> 502, headers |-> EmptyObject, body |-> MalformedBody],
          [status |-> 200, headers |-> EmptyObject, body |-> JsonBody(JsonNull)],
          [status |-> 200, headers |-> ServerHeaders(op, this, SampleData(op, 1, 0)),
           body |-> JsonBody(JsonObject(NoErrorField, NoData))]}

(***************************************************************************)
(* A call of an operation, step by step.                                   *)
(***************************************************************************)
Calls == 1..MaxCalls

IdleCall ==
    [pc |-> "idle", op |-> "none", parameters |-> EmptyObject,
     salt |-> <<>>, hashToken |-> <<>>, verificationHash |-> <<>>,
     requests |-> <<>>, response |-> NoResponse, result |-> NoResult,
     record |-> NoRecord, error |-> NoError, trace |-> <<>>]

\* The arguments each operation is called with.
ArgsOf(op) ==
    LET optional == {[referenceNo |-> r, description |-> d] :
                        r \in {Str(<<"R">>), Undefined}, d \in {Str(<<"d">>), Undefined}}
    IN CASE op = "createPaymentRequest" ->
              {[NoArgs EXCEPT !.amount = Str(<<"5">>), !.referenceNo = o.referenceNo,
                              !.description = o.description] : o \in optional}
         [] op = "sendMoney" ->
              {[NoArgs EXCEPT !.amount = Num(<<"5">>), !.walletGatewayId = Str(<<"W">>),
                              !.referenceNo = o.referenceNo, !.description = o.description]
               : o \in {x \in optional : (x.referenceNo = Undefined) = (x.description = Undefined)}}
         [] op = "checkPaymentStatus" -> {[NoArgs EXCEPT !.requestId = Str(<<"Q">>)]}
         [] op = "getStatement" -> {[NoArgs EXCEPT !.date = Str(<<"D">>)]}
         [] op = "checkWallet" -> {[NoArgs EXCEPT !.walletGatewayId = Str(<<"W">>)]}
         [] OTHER -> {NoArgs}

\* The arguments of the concurrent specification: every optional argument given.
LeanArgsOf(op) == {a \in ArgsOf(op) : op \in {"createPaymentRequest", "sendMoney"} =>
                       a.referenceNo # Undefined /\ a.description # Undefined}

\* The call rejects: the error goes to the caller, sendRequest's locals are gone.
\* response and result stay as the record of what the call received.
Reject(call, error, trace) ==
    [call EXCEPT !.pc = "failed", !.error = error, !.trace = trace,
                 !.salt = <<>>, !.hashToken = <<>>, !.verificationHash = <<>>]

\* The operation starts: it builds its parameters (e.g. lines 189-190).
Build(c, op, args, now) ==
    /\ calls[c].pc = "idle"
    /\ calls' = [calls EXCEPT ![c] = [@ EXCEPT !.pc = "built", !.op = op,
                     !.parameters = BuildParameters(op, args, now), !.trace = <<"Build">>]]
    /\ UNCHANGED <<client, hs>>

\* The salts of the requests a call has sent.
SaltsSent(call) ==
    {Get(call.requests[i].headers, H_X_Signature_Salt).v : i \in DOMAIN call.requests}

\* The salts generateSalt has returned so far: those sent and those held by a
\* call between signing and sending.
SaltsDrawn ==
    UNION {SaltsSent(calls[c]) \cup (IF calls[c].salt = <<>> THEN {} ELSE {calls[c].salt}) : c \in Calls}

\* generateSalt(), lines 97-99: 32 bytes of crypto.randomBytes, taken as a value
\* the generator has not returned before (256 random bits do not repeat, as the
\* HMAC does not collide).
generateSalt == Salts \ SaltsDrawn

\* Mutant: the salt of an earlier request is kept and used again; a salt is
\* generated only when none has been sent yet.
Sign_StoredSalt(c) ==
    /\ calls[c].pc = "built"
    /\ \E salt \in (IF UNION {SaltsSent(calls[d]) : d \in Calls} = {} THEN generateSalt
                    ELSE UNION {SaltsSent(calls[d]) : d \in Calls}) :
         LET hashToken == generateHashToken(salt, client.password)
             verificationHash == generateVerificationHash(client, hashToken, calls[c].parameters)
         IN calls' = [calls EXCEPT ![c] = [@ EXCEPT !.pc = "signed", !.salt = salt,
                          !.hashToken = hashToken, !.verificationHash = verificationHash,
                          !.trace = Append(@, "Sign")]]
    /\ UNCHANGED <<client, hs>>

\* sendRequest, lines 124-126: salt, hash token, hash.
Sign(c) ==
    /\ calls[c].pc = "built"
    /\ \E salt \in generateSalt :
         LET hashToken == generateHashToken(salt, client.password)
             verificationHash == generateVerificationHash(client, hashToken, calls[c].parameters)
         IN calls' = [calls EXCEPT ![c] = [@ EXCEPT !.pc = "signed", !.salt = salt,
                          !.hashToken = hashToken, !.verificationHash = verificationHash,
                          !.trace = Append(@, "Sign")]]
    /\ UNCHANGED <<client, hs>>

\* Mutant: the salt header carries a second, newly generated salt.
FetchRequest_SecondSalt(this, endpoint, salt, verificationHash, parameters) ==
    [url |-> <<this.baseUrl, endpoint>>, method |-> "POST",
     headers |-> RequestHeaders(this, CHOOSE other \in Salts : other # salt, verificationHash),
     body |-> JSONStringify(parameters)]

\* The request fetch is called with (lines 128-138).
FetchRequest(this, endpoint, salt, verificationHash, parameters) ==
    [url |-> <<this.baseUrl, endpoint>>, method |-> "POST",
     headers |-> RequestHeaders(this, salt, verificationHash),
     body |-> JSONStringify(parameters)]

\* sendRequest, lines 128-138: the request goes out.
Send(c) ==
    /\ calls[c].pc = "signed"
    /\ calls' = [calls EXCEPT ![c] = [@ EXCEPT !.pc = "sent",
                     !.requests = Append(@, FetchRequest(client, Endpoint(calls[c].op), calls[c].salt,
                                                         calls[c].verificationHash, calls[c].parameters)),
                     !.trace = Append(@, "Send")]]
    /\ UNCHANGED <<client, hs>>

\* fetch resolves and response.text() delivers the body (lines 128, 140).
Receive(c, response) ==
    /\ calls[c].pc = "sent"
    /\ calls' = [calls EXCEPT ![c] = [@ EXCEPT !.pc = "received", !.response = response]]
    /\ UNCHANGED <<client, hs>>

\* Mutant: a failed fetch is tried again.
FetchFails_Retry(c) ==
    /\ calls[c].pc = "sent"
    /\ calls' = [calls EXCEPT ![c] = [@ EXCEPT !.pc = "signed"]]
    /\ UNCHANGED <<client, hs>>

\* fetch rejects: the network failed, and the error propagates out of sendRequest
\* and out of the operation.
FetchFails(c) ==
    /\ calls[c].pc = "sent"
    /\ calls' = [calls EXCEPT ![c] = Reject(@, Thrown("TransportError"), @.trace)]
    /\ UNCHANGED <<client, hs>>

\* Mutant: the error field of the body is not looked at.
ParseResponse_NoErrorCheck(response) ==
    IF response.body.kind = "malformed" THEN [threw |-> Thrown("SyntaxError"), result |-> NoResult]
    ELSE IF ~Truthy(response.body.json) THEN [threw |-> Thrown("NoJsonResponse"), result |-> NoResult]
    ELSE [threw |-> NoError,
          result |-> [response |-> response.body.json, headers |-> HeadersForEach(response.headers),
                      code |-> response.status]]

\* Mutant: a status outside 200..299 is an error, whatever the body holds.
ParseResponse_StatusChecked(response) ==
    IF response.status < 200 \/ response.status > 299
    THEN [threw |-> Thrown("HttpError"), result |-> NoResult]
    ELSE IF response.body.kind = "malformed" THEN [threw |-> Thrown("SyntaxError"), result |-> NoResult]
    ELSE IF ~Truthy(response.body.json) THEN [threw |-> Thrown("NoJsonResponse"), result |-> NoResult]
    ELSE IF Truthy(response.body.json.error)
         THEN [threw |-> [kind |-> "RemoteError",
                          code |-> TemplateValue(Or(response.body.json.error.code, Str(<<"U", "N", "K", "N", "O", "W", "N", "_", "C", "O", "D", "E">>))),
                          message |-> TemplateValue(Or(response.body.json.error.message, Str(<<"U", "n", "k", "n", "o", "w", "n", " ", "e", "r", "r", "o", "r">>)))],
               result |-> NoResult]
    ELSE [threw |-> NoError,
          result |-> [response |-> response.body.json, headers |-> HeadersForEach(response.headers),
                      code |-> response.status]]

\* sendRequest, lines 141-162, on a received response: what it returns, or throws.
ParseResponse(response) ==
    LET headers == HeadersForEach(response.headers)
        responseJson == response.body.json
        errorMsg == Or(responseJson.error.message, Str(<<"U", "n", "k", "n", "o", "w", "n", " ", "e", "r", "r", "o", "r">>))
        errorCode == Or(responseJson.error.code, Str(<<"U", "N", "K", "N", "O", "W", "N", "_", "C", "O", "D", "E">>))
    IN IF response.body.kind = "malformed" THEN [threw |-> Thrown("SyntaxError"), result |-> NoResult]
       ELSE IF ~Truthy(responseJson) THEN [threw |-> Thrown("NoJsonResponse"), result |-> NoResult]
       ELSE IF Truthy(responseJson.error)
            THEN [threw |-> [kind |-> "RemoteError", code |-> TemplateValue(errorCode),
                             message |-> TemplateValue(errorMsg)],
                  result |-> NoResult]
       ELSE [threw |-> NoError,
             result |-> [response |-> responseJson, headers |-> headers, code |-> response.status]]

Parse(c) ==
    /\ calls[c].pc = "received"
    /\ LET r == ParseResponse(calls[c].response)
       IN calls' = [calls EXCEPT ![c] =
              IF r.threw # NoError THEN Reject(@, r.threw, Append(@.trace, "Parse"))
              ELSE [@ EXCEPT !.pc = "returned", !.result = r.result, !.trace = Append(@, "Parse"),
                             !.salt = <<>>, !.hashToken = <<>>, !.verificationHash = <<>>]]
    /\ UNCHANGED <<client, hs>>

\* Mutant: the record is built whatever verifyResponse finds.
VerifyResult_Unchecked(this, op, result) ==
    IF ~result.response.data.present THEN "TypeError" ELSE "none"

\* The operation after sendRequest returned: data = result.response.data and
\* verifyResponse on its signed fields (e.g. lines 192-197); what is thrown.
VerifyResult(this, op, result) ==
    LET data == result.response.data
    IN IF ~data.present THEN "TypeError"
       ELSE verifyResponse(this, result.headers, ResponseFields(op, data)).threw

\* Mutant: the result is read from a place the calls share, which holds the result
\* of whichever call returned from sendRequest.
Verify_SharedResult(c) ==
    /\ calls[c].pc = "returned"
    /\ LET d == CHOOSE d \in Calls : calls[d].pc = "returned" /\ (\A e \in Calls : calls[e].pc = "returned" => d >= e)
           data == calls[d].result.response.data
           threw == IF ~data.present THEN "TypeError"
                    ELSE verifyResponse(client, calls[d].result.headers, ResponseFields(calls[c].op, data)).threw
       IN calls' = [calls EXCEPT ![c] =
              IF threw # "none" THEN Reject(@, Thrown(threw), Append(@.trace, "Verify"))
              ELSE [@ EXCEPT !.pc = "verified", !.result = calls[d].result, !.trace = Append(@, "Verify")]]
    /\ UNCHANGED <<client, hs>>

\* Mutant: the hash token of the verification holds the salt of the call's own
\* request, so that a response is tied to the request it answers.
Verify_BoundToRequest(c) ==
    /\ calls[c].pc = "returned"
    /\ LET data == calls[c].result.response.data
           requestSalt == Get(calls[c].requests[1].headers, H_X_Signature_Salt).v
           threw == IF ~data.present THEN "TypeError"
                    ELSE verifyResponse([client EXCEPT !.password = requestSalt \o @],
                                        calls[c].result.headers, ResponseFields(calls[c].op, data)).threw
       IN calls' = [calls EXCEPT ![c] =
              IF threw # "none" THEN Reject(@, Thrown(threw), Append(@.trace, "Verify"))
              ELSE [@ EXCEPT !.pc = "verified", !.trace = Append(@, "Verify")]]
    /\ UNCHANGED <<client, hs>>

Verify(c) ==
    /\ calls[c].pc = "returned"
    /\ LET threw == VerifyResult(client, calls[c].op, calls[c].result)
       IN calls' = [calls EXCEPT ![c] =
              IF threw # "none" THEN Reject(@, Thrown(threw), Append(@.trace, "Verify"))
              ELSE [@ EXCEPT !.pc = "verified", !.trace = Append(@, "Verify")]]
    /\ UNCHANGED <<client, hs>>

\* The operation constructs and returns its record (e.g. line 198).
Map(c) ==
    /\ calls[c].pc = "verified"
    /\ calls' = [calls EXCEPT ![c] = [@ EXCEPT !.pc = "done",
                     !.record = NewRecord(calls[c].op, calls[c].result.response.data),
                     !.trace = Append(@, "Map")]]
    /\ UNCHANGED <<client, hs>>

(***************************************************************************)
(* Specifications.                                                         *)
(***************************************************************************)
Clients ==
    {Construct(<<"A">>, <<"k">>, <<"p">>, BaseUrl.PRODUCTION, <<"e", "n">>),
     Construct(<<"B">>, <<"j">>, <<"q">>, BaseUrl.STAGING, <<"a", "r">>)}

\* One caller that issues one call of any operation, with any arguments, and the
\* service answers with any response.
Init ==
    /\ client \in Clients
    /\ calls = [c \in Calls |-> IdleCall]
    /\ hs = HsIdle

Next ==
    \/ \E op \in Ops : \E args \in ArgsOf(op) : \E now \in 1..MaxTime : Build(1, op, args, now)
    \/ Sign(1)
    \/ Send(1)
    \/ /\ calls[1].pc = "sent"
       /\ \E response \in Responses(calls[1].op, client) : Receive(1, response)
    \/ FetchFails(1)
    \/ Parse(1)
    \/ Verify(1)
    \/ Map(1)

Spec == Init /\ [][Next]_vars

\* MaxCalls calls in flight at once on one client, call c started when the clock
\* reads c.
ConcInit ==
    /\ client = Construct(<<"A">>, <<"k">>, <<"p">>, BaseUrl.PRODUCTION, <<"e", "n">>)
    /\ calls = [c \in Calls |-> IdleCall]
    /\ hs = HsIdle

ConcNext ==
    \E c \in Calls :
        \/ \E op \in Ops : \E args \in LeanArgsOf(op) : Build(c, op, args, c)
        \/ Sign(c)
        \/ Send(c)
        \/ /\ calls[c].pc = "sent"
           /\ \E response \in LeanResponses(calls[c].op, client) : Receive(c, response)
        \/ FetchFails(c)
        \/ Parse(c)
        \/ Verify(c)
        \/ Map(c)

ConcSpec == ConcInit /\ [][ConcNext]_vars

\* The signer and the verifier on drawn parameters.
HashInit ==
    /\ client \in HashClients
    /\ calls = [c \in Calls |-> IdleCall]
    /\ \E params \in ParamMaps :
         hs = [HsIdle EXCEPT !.stage = "drawn", !.params = params, !.fields = params]

HashNext == HSign \/ HReorder \/ HTamper \/ HDrop \/ HRecase \/ HRetype \/ HVerify

HashSpec == HashInit /\ [][HashNext]_vars

\* The base URLs a caller may hand to the constructor: the values of BaseUrl and
\* strings that are none of them.
BaseUrlArgs == BaseUrlValues \cup {"https://example.com/v1", ""}

\* new GPayApiClient(apiKey, secretKey, password, baseUrl, language), lines 86-95:
\* the caller holds the instance, or nothing when the constructor threw.
Constructor(apiKey, secretKey, password, baseUrl, language) ==
    /\ ~client.constructed
    /\ client' = Construct(apiKey, secretKey, password, baseUrl, language)
    /\ UNCHANGED <<calls, hs>>

\* A caller that constructs the client, trying again after a throw, and then
\* issues one call.
CtorInit ==
    /\ client = NoClient
    /\ calls = [c \in Calls |-> IdleCall]
    /\ hs = HsIdle

CtorNext ==
    \/ \E apiKey \in {<<"A">>, <<"B">>} : \E baseUrl \in BaseUrlArgs : \E language \in {<<"e", "n">>, <<"a", "r">>} :
         Constructor(apiKey, <<"k">>, <<"p">>, baseUrl, language)
    \/ /\ client.constructed
       /\ \E op \in Ops : \E args \in LeanArgsOf(op) : Build(1, op, args, 1)
    \/ Sign(1)
    \/ Send(1)
    \/ /\ calls[1].pc = "sent"
       /\ \E response \in LeanResponses(calls[1].op, client) : Receive(1, response)
    \/ FetchFails(1)
    \/ Parse(1)
    \/ Verify(1)
    \/ Map(1)

CtorSpec == CtorInit /\ [][CtorNext]_vars

(***************************************************************************)
(* The claims.                                                             *)
(***************************************************************************)
Terminal(call) == call.pc \in {"done", "failed"}

\* C1: a record exists only in a call that is done, whose verifyResponse on the
\* headers and signed fields of its own response returned without throwing, and
\* the record is the one built from that response; a call that failed (a missing
\* header and a hash mismatch included) has no record.
C1_RecordOnlyAfterVerification ==
    \A c \in Calls :
        LET call == calls[c]
            data == call.result.response.data
        IN /\ call.record # NoRecord =>
                /\ call.pc = "done"
                /\ call.error = NoError
                /\ call.result = ParseResponse(call.response).result
                /\ data.present
                /\ verifyResponse(client, call.result.headers, ResponseFields(call.op, data)).threw = "none"
                /\ call.record = NewRecord(call.op, data)
           /\ call.pc = "failed" => call.record = NoRecord /\ call.error # NoError
           /\ call.pc = "done" => call.record # NoRecord

C1_Witness ==
    \E c \in Calls : calls[c].pc = "done" /\ calls[c].record.type = "Statement"
                     /\ Len(calls[c].record.rows) >= 1

\* C2: headers signed the way sendRequest signs, handed with the same parameters
\* to verifyResponse on the same client, are accepted.
C2_RoundTrip ==
    (hs.stage = "verified" /\ hs.mods = {}) => hs.verdict.threw = "none"

C2_Witness ==
    hs.stage = "verified" /\ hs.mods = {} /\ Len(hs.params) >= 2 /\ hs.verdict.threw = "none"

\* C3: two parameter maps with the same key-value pairs get the same signature
\* under the same hash token and secret key, whatever the creation order.
SameProperties(a, b) == {a[i] : i \in DOMAIN a} = {b[i] : i \in DOMAIN b}

C3_OrderIndependent ==
    (hs.stage \in {"signed", "verified"} /\ SameProperties(hs.fields, hs.params)) =>
        LET hashToken == generateHashToken(hs.salt, client.password)
        IN generateVerificationHash(client, hashToken, hs.fields)
             = generateVerificationHash(client, hashToken, hs.params)

C3_Witness ==
    /\ hs.stage = "verified" /\ hs.mods = {"reorder"}
    /\ hs.fields # hs.params /\ SameProperties(hs.fields, hs.params)
    /\ \E i, j \in DOMAIN hs.fields : i < j /\ StrLess(hs.fields[j].k, hs.fields[i].k)
                                      /\ ~IsArrayIndex(hs.fields[i].k) /\ ~IsArrayIndex(hs.fields[j].k)
    /\ hs.verdict.threw = "none"

\* C4: one character changed in one signed field's value changes the signature,
\* and verifyResponse rejects the changed fields against the original hash.
C4_TamperSensitive ==
    ("tamper" \in hs.mods) =>
        LET hashToken == generateHashToken(hs.salt, client.password)
        IN /\ generateVerificationHash(client, hashToken, hs.fields)
                # generateVerificationHash(client, hashToken, hs.params)
           /\ (hs.stage = "verified" /\ hs.mods = {"tamper"}) => hs.verdict.threw = "HashMismatch"

C4_Witness ==
    hs.stage = "verified" /\ hs.mods = {"tamper"} /\ hs.verdict.threw = "HashMismatch"

\* C5: with the salt header or the hash header missing, verifyResponse throws the
\* missing-signature error whatever the fields hold, before it computes a hash.
C5_MissingHeaderRejected ==
    (hs.stage = "verified" /\ hs.mods \cap {"dropSalt", "dropHash"} # {}) =>
        hs.verdict = [threw |-> "MissingSignature", hmacs |-> 0]

C5_Witness ==
    /\ hs.stage = "verified" /\ hs.mods = {"tamper", "dropSalt"}
    /\ hs.verdict.threw = "MissingSignature"

\* The body of the response a call received holds an error object.
HasErrorEnvelope(call) ==
    /\ call.response # NoResponse
    /\ call.response.body.kind = "json"
    /\ call.response.body.json.t = "object"
    /\ call.response.body.json.error.t = "object"

\* C6: a call whose response body holds an error object ends in sendRequest with
\* the remote error: it never reaches verifyResponse and builds no record.
C6_ErrorEnvelopeShortCircuits ==
    \A c \in Calls :
        (HasErrorEnvelope(calls[c]) /\ calls[c].pc # "received") =>
            /\ calls[c].pc = "failed"
            /\ calls[c].error = [kind |-> "RemoteError",
                                 code |-> calls[c].response.body.json.error.code.v,
                                 message |-> calls[c].response.body.json.error.message.v]
            /\ calls[c].result = NoResult
            /\ calls[c].record = NoRecord
            /\ calls[c].trace = <<"Build", "Sign", "Send", "Parse">>

C6_Witness ==
    \E c \in Calls :
        /\ HasErrorEnvelope(calls[c]) /\ calls[c].pc = "failed"
        /\ calls[c].response.body.json.data.present
        /\ VerifyResult(client, calls[c].op,
                        [response |-> calls[c].response.body.json,
                         headers |-> HeadersForEach(calls[c].response.headers), code |-> 0]) = "none"

\* C7: the steps of a call are Build, Sign, Send, Parse, Verify, Map in that order,
\* each at most once; at most one request goes out; a step never leads back; the
\* call ends either done with a record or failed with an error and no record, and
\* stays there.
AllSteps == <<"Build", "Sign", "Send", "Parse", "Verify", "Map">>

PcRank(pc) ==
    CASE pc = "idle" -> 0 [] pc = "built" -> 1 [] pc = "signed" -> 2 [] pc = "sent" -> 3
      [] pc = "received" -> 4 [] pc = "returned" -> 5 [] pc = "verified" -> 6
      [] pc = "done" -> 7 [] pc = "failed" -> 7

LinearCall(call) ==
    /\ Len(call.trace) <= Len(AllSteps)
    /\ call.trace = SubSeq(AllSteps, 1, Len(call.trace))
    /\ Len(call.requests) <= 1
    /\ (Len(call.requests) = 1) = (Len(call.trace) >= 3)
    /\ call.pc = "done" <=> call.trace = AllSteps
    /\ call.pc = "done" => call.record # NoRecord /\ call.error = NoError
    /\ call.pc = "failed" => call.record = NoRecord /\ call.error # NoError
    /\ ~Terminal(call) => call.record = NoRecord /\ call.error = NoError

C7_LinearSteps ==
    /\ [](\A c \in Calls : LinearCall(calls[c]))
    /\ [][\A c \in Calls :
            /\ calls'[c] # calls[c] => PcRank(calls'[c].pc) > PcRank(calls[c].pc)
            /\ Terminal(calls[c]) => calls'[c] = calls[c]]_vars

C7_Witness ==
    \E c \in Calls : calls[c].pc = "done" /\ calls[c].trace = AllSteps /\ Len(calls[c].requests) = 1

\* What a call that runs alone makes of a response: the error or the record.
OutcomeAlone(this, op, response) ==
    LET p == ParseResponse(response)
        threw == VerifyResult(this, op, p.result)
    IN IF p.threw # NoError THEN [error |-> p.threw, record |-> NoRecord]
       ELSE IF threw # "none" THEN [error |-> Thrown(threw), record |-> NoRecord]
       ELSE [error |-> NoError, record |-> NewRecord(op, p.result.response.data)]

\* C8: with several calls in flight, no step writes the client's five fields, each
\* call verifies the headers and the body of its own response, and each call ends
\* as it would end alone on its response.
C8_NoInterference ==
    /\ [](\A c \in Calls :
            LET call == calls[c]
            IN /\ call.pc \in {"returned", "verified", "done"} =>
                    call.result = ParseResponse(call.response).result
               /\ (Terminal(call) /\ call.response # NoResponse) =>
                    [error |-> call.error, record |-> call.record]
                      = OutcomeAlone(client, call.op, call.response)
               /\ (Terminal(call) /\ call.response = NoResponse) =>
                    call.error = Thrown("TransportError") /\ call.record = NoRecord)
    /\ [][client' = client]_vars

C8_Witness ==
    \E c, d \in Calls :
        /\ c # d /\ calls[c].op = calls[d].op
        /\ calls[c].pc = "returned" /\ calls[d].pc = "returned"
        /\ calls[c].result # calls[d].result

\* C9: a request carries the hash of its own salt header and of the parameters
\* that were serialized into its body, under the client's password and secret key,
\* and the Authorization, Accept-Language and Content-Type headers.
C9_RequestSelfConsistent ==
    \A c \in Calls : \A i \in DOMAIN calls[c].requests :
        LET request == calls[c].requests[i]
            salt == Get(request.headers, H_X_Signature_Salt)
            hashToken == generateHashToken(salt.v, client.password)
        IN /\ salt.t = "string" /\ salt.v \in Salts
           /\ Get(request.headers, H_X_Signature_Hash)
                = Str(generateVerificationHash(client, hashToken, calls[c].parameters))
           /\ request.body = JSONStringify(calls[c].parameters)
           /\ Get(request.headers, H_Authorization) = Str(Bearer \o client.apiKey)
           /\ Get(request.headers, H_Accept_Language) = Str(client.language)
           /\ Get(request.headers, H_Content_Type) = Str(ApplicationJson)
           /\ request.method = "POST"
           /\ request.url = <<client.baseUrl, Endpoint(calls[c].op)>>

C9_Witness ==
    \E c \in Calls : Len(calls[c].requests) = 1 /\ calls[c].op = "sendMoney"
                     /\ ~Terminal(calls[c])

\* The keys the canonical string of a parameters object names, each with the
\* characters written after its '='.
SignedPairs(parameters) ==
    LET entries == ObjectEntries(SortedParams(parameters))
    IN {<<entries[i].k, TemplateValue(entries[i].v)>> : i \in DOMAIN entries}

BodyPairs(body) == {<<body[i].k, TemplateValue(body[i].v)>> : i \in DOMAIN body}

\* C10: the keys of the JSON body of a request are the keys of the canonical
\* string its signature was computed over, with the same values.
C10_BodyCarriesSignedMap ==
    \A c \in Calls : \A i \in DOMAIN calls[c].requests :
        BodyPairs(calls[c].requests[i].body) = SignedPairs(calls[c].parameters)

\* The canonical string as the contract words it: the keys in ascending order of
\* their code units, each entry as key=value, a null or absent value as the empty
\* string, the entries joined by '&'.
CanonicalAscending(parameters) ==
    LET ks == Sort(ObjectKeys(parameters))
    IN Join([i \in DOMAIN ks |->
               ks[i] \o <<"=">> \o (IF Get(parameters, ks[i]).t \in {"null", "undefined"}
                                    THEN <<>> ELSE Get(parameters, ks[i]).v)],
            <<"&">>)

\* C11: the string generateVerificationHash signs lists the entries of the
\* parameters in ascending key order, keys that look like integers included.
C11_CanonicalStringAscending ==
    (hs.stage \in {"signed", "verified"}) =>
        /\ QueryString(hs.params) = CanonicalAscending(hs.params)
        /\ hs.stage = "signed" /\ hs.mods = {} =>
             Get(hs.headers, H_X_Signature_Hash)
               = Str(HmacSha256Base64(client.secretKey,
                                      hs.salt \o client.password \o CanonicalAscending(hs.params)))

\* A header with this name, in whatever letter case, is among the headers.
HeaderPresent(headers, name) == \E i \in DOMAIN headers : ToLowerCase(headers[i].k) = name

\* C12: verifyResponse finds the salt and the hash under any spelling of the two
\* header names, and reports a missing signature only when a name is absent in
\* every spelling.
C12_HeaderLookupAnyCase ==
    (hs.stage = "verified") =>
        (hs.verdict.threw = "MissingSignature"
           <=> ~(HeaderPresent(hs.headers, H_x_signature_salt) /\ HeaderPresent(hs.headers, H_x_signature_hash)))

\* The signed response fields of each operation, as the contract's table of
\* endpoints lists them.
Whitelist(op) ==
    CASE op = "getBalance" -> {K_balance, K_response_timestamp}
      [] op = "createPaymentRequest" ->
           {K_requester_username, K_request_id, K_request_time, K_amount, K_reference_no,
            K_response_timestamp}
      [] op = "checkPaymentStatus" ->
           {K_request_id, K_transaction_id, K_amount, K_payment_timestamp, K_reference_no,
            K_description, K_is_paid, K_response_timestamp}
      [] op = "sendMoney" ->
           {K_amount, K_sender_fee, K_transaction_id, K_old_balance, K_new_balance, K_timestamp,
            K_reference_no, K_response_timestamp}
      [] op = "getStatement" ->
           {K_available_balance, K_outstanding_credit, K_outstanding_debit, K_day_balance,
            K_day_total_in, K_day_total_out, K_response_timestamp}
      [] op = "checkWallet" ->
           {K_exists, K_wallet_gateway_id, K_wallet_name, K_user_account_name,
            K_can_receive_money, K_response_timestamp}
      [] op = "getOutstandingTransactions" ->
           {K_outstanding_credit, K_outstanding_debit, K_response_timestamp}

\* data with nothing but the fields that were handed to verifyResponse.
SignedOnly(op, data) == [data EXCEPT !.fields = ResponseFields(op, data)]

\* C13: the fields a call hands to verifyResponse have exactly the keys of the
\* operation's whitelist, each value read from the data of the call's own
\* response; the scalar fields of the record are built from those values alone,
\* and the rows come from day_statement or outstanding_transactions.
C13_WhitelistedFields ==
    \A c \in Calls :
        (calls[c].pc \in {"verified", "done"}) =>
            LET op == calls[c].op
                data == calls[c].result.response.data
                fields == ResponseFields(op, data)
            IN /\ {fields[i].k : i \in DOMAIN fields} = Whitelist(op)
               /\ Len(fields) = Cardinality(Whitelist(op))
               /\ \A i \in DOMAIN fields :
                    fields[i].v = Get(calls[c].response.body.json.data.fields, fields[i].k)
               /\ calls[c].pc = "done" =>
                    /\ calls[c].record.props = NewRecord(op, SignedOnly(op, data)).props
                    /\ calls[c].record.rows =
                         (CASE op = "getStatement" -> MapRows(data.day_statement)
                            [] op = "getOutstandingTransactions" -> MapRows(data.outstanding_transactions)
                            [] OTHER -> <<>>)

C13_Witness ==
    \E c \in Calls :
        /\ calls[c].pc = "done" /\ calls[c].op = "getStatement"
        /\ Len(calls[c].record.rows) >= 1
        /\ \E i \in DOMAIN calls[c].result.response.data.fields :
             /\ calls[c].result.response.data.fields[i].k = K_amount
             /\ K_amount \notin Whitelist(calls[c].op)

\* The numeric fields of the records, each with the response field it is built from.
NumericProps ==
    {<<"balance", K_balance>>, <<"amount", K_amount>>, <<"senderFee", K_sender_fee>>,
     <<"oldBalance", K_old_balance>>, <<"newBalance", K_new_balance>>,
     <<"availableBalance", K_available_balance>>, <<"outstandingCredit", K_outstanding_credit>>,
     <<"outstandingDebit", K_outstanding_debit>>, <<"dayBalance", K_day_balance>>,
     <<"dayTotalIn", K_day_total_in>>, <<"dayTotalOut", K_day_total_out>>}

\* The number a numeric string of the responses denotes, as String prints it.
NumberDenoted(s) ==
    CASE s = <<"1">> -> Num(<<"1">>)
      [] s = <<"3">> -> Num(<<"3">>)
      [] s = <<"2", ".", "5", "0">> -> Num(<<"2", ".", "5">>)

\* A record's properties agree with the object they were built from: a numeric
\* string became its number, null stayed null.
Coerced(props, source) ==
    \A i \in DOMAIN props : \A np \in NumericProps :
        (props[i].k = np[1] /\ HasOwn(source, np[2])) =>
            LET input == Get(source, np[2])
            IN /\ input.t = "null" => props[i].v = Null
               /\ input.t = "string" => props[i].v = NumberDenoted(input.v)

\* C14: in every record a numeric string is mapped to its number and null to
\* null, in the record's own numeric fields and in those of its rows.
C14_NumericCoercion ==
    \A c \in Calls :
        (calls[c].pc = "done") =>
            LET data == calls[c].result.response.data
                rows == IF calls[c].op = "getStatement" THEN data.day_statement
                        ELSE data.outstanding_transactions
            IN /\ Coerced(calls[c].record.props, data.fields)
               /\ \A j \in DOMAIN calls[c].record.rows : Coerced(calls[c].record.rows[j], rows.items[j])

\* C15: a client exists only with baseUrl BaseUrl.STAGING or BaseUrl.PRODUCTION;
\* after the constructor threw, no client with credentials exists.
C15_ConstructorAcceptsTwoUrls ==
    /\ client.constructed => client.baseUrl \in {BaseUrl.STAGING, BaseUrl.PRODUCTION}
    /\ ~client.constructed => client = NoClient /\ \A c \in Calls : calls[c].pc = "idle"

\* The salt a call received in the headers of its response, if any.
SaltsReceived(call) ==
    {call.response.headers[i].v.v :
        i \in {j \in DOMAIN call.response.headers : ToLowerCase(call.response.headers[j].k) = H_x_signature_salt}}

CredentialsOnly(this) == [NoClient EXCEPT !.password = this.password, !.secretKey = this.secretKey]

\* C17: whether a call's response is accepted is decided by the response's
\* headers and signed fields and by the client's password and secret key alone;
\* two calls of one operation that got the same response, whatever their salts
\* and timestamps, end the same way.
C17_VerificationNotBoundToRequest ==
    /\ \A c \in Calls :
         (calls[c].pc \in {"verified", "done"} \/ (calls[c].pc = "failed" /\ calls[c].trace[Len(calls[c].trace)] = "Verify")) =>
            /\ calls[c].result.response.data.present =>
                 (calls[c].pc = "failed" /\ calls[c].error.kind
                     = verifyResponse(CredentialsOnly(client), calls[c].result.headers,
                                      ResponseFields(calls[c].op, calls[c].result.response.data)).threw)
                 \/ (calls[c].pc # "failed"
                     /\ verifyResponse(CredentialsOnly(client), calls[c].result.headers,
                                       ResponseFields(calls[c].op, calls[c].result.response.data)).threw = "none")
    /\ \A c, d \in Calls :
         (/\ c # d /\ calls[c].op = calls[d].op
          /\ calls[c].response = calls[d].response /\ calls[c].response # NoResponse
          /\ Terminal(calls[c]) /\ Terminal(calls[d])) =>
            /\ calls[c].pc = calls[d].pc
            /\ calls[c].error = calls[d].error
            /\ calls[c].record = calls[d].record

C17_Witness ==
    \E c, d \in Calls :
        /\ c # d /\ calls[c].op = calls[d].op
        /\ calls[c].response = calls[d].response
        /\ calls[c].pc = "done" /\ calls[d].pc = "done"
        /\ SaltsSent(calls[c]) # SaltsSent(calls[d])
        /\ Get(calls[c].parameters, K_request_timestamp) # Get(calls[d].parameters, K_request_timestamp)

\* C18: a field map in which null was replaced by undefined or by the empty
\* string, or a number by its decimal string, has the signature of the original,
\* and verifyResponse accepts it under the original's salt and hash.
C18_SameTextSameSignature ==
    ("retype" \in hs.mods) =>
        LET hashToken == generateHashToken(hs.salt, client.password)
        IN /\ hs.fields # hs.params
           /\ generateVerificationHash(client, hashToken, hs.fields)
                = generateVerificationHash(client, hashToken, hs.params)
           /\ hs.stage = "verified" => hs.verdict.threw = "none"

C18_Witness ==
    /\ hs.stage = "verified" /\ hs.mods = {"retype"} /\ hs.verdict.threw = "none"
    /\ Len(hs.fields) >= 2
    /\ \E i \in DOMAIN hs.fields : hs.params[i].v = Null /\ hs.fields[i].v = Str(<<>>)
    /\ \E i \in DOMAIN hs.fields : hs.params[i].v.t = "number"

\* The body of a response parses to a JSON value that is not null and has no
\* truthy error field.
BodyWithoutError(response) ==
    /\ response.body.kind = "json"
    /\ Truthy(response.body.json)
    /\ ~Truthy(response.body.json.error)

=============================================================================
